---- MODULE Spec2Model ----
(***************************************************************************)
(* Model of the two notebook utilities of the repository:                  *)
(*   - modify_nb.py        the notebook patcher (main and its helpers),     *)
(*   - notebook_builder.py the assembler of GeoSafeMonitor.ipynb.           *)
(* A line is a TLA+ string; a cell source is either one string or a list    *)
(* of strings, tagged by isList as isinstance(source, list) tells them      *)
(* apart in the code.                                                       *)
(***************************************************************************)
EXTENDS Integers, Sequences, FiniteSets, TLC

(***************************************************************************)
(* Bounds of the model.                                                     *)
(***************************************************************************)
\* most lines over cell 5 and cell 7 together in an 8-cell all-code document
MaxLines == 2
\* most cells of an input document
MaxCells == 9
\* most runs of the patcher on the same file
MaxRuns == 2

(***************************************************************************)
(* String helpers: Python's str operations on strings.                      *)
(***************************************************************************)
Char(s, i) == SubSeq(s, i, i)

\* needle in line
Contains(line, needle) ==
    \E i \in 1..(Len(line) - Len(needle) + 1) :
        SubSeq(line, i, i + Len(needle) - 1) = needle

\* line.startswith(prefix)
StartsWith(line, prefix) ==
    /\ Len(line) >= Len(prefix)
    /\ SubSeq(line, 1, Len(prefix)) = prefix

\* "".join(lines)
RECURSIVE Join(_)
Join(lines) ==
    IF lines = <<>> THEN "" ELSE Head(lines) \o Join(Tail(lines))

\* the one-character line boundaries of str.splitlines beside "\n", "\r" and
\* "\f"; each string below holds the character itself, which has no escape
\* in TLA+ (U+2028 and U+2029, the last two boundaries, cannot be written in
\* a TLA+ string)
\* "\x0b", line tabulation
VT == ""
\* "\x1c", file separator
FS == ""
\* "\x1d", group separator
GS == ""
\* "\x1e", record separator
RS == ""
\* "\x85", next line
NEL == ""

\* the line boundaries of str.splitlines
LineBreaks == {"\n", "\r", "\f", VT, FS, GS, RS, NEL}

\* the positions where a line of s ends: at a line boundary, "\r\n" being
\* one boundary that ends at its "\n"
LineEnds(s) ==
    {j \in 1..Len(s) :
        /\ Char(s, j) \in LineBreaks
        /\ ~(Char(s, j) = "\r" /\ j < Len(s) /\ Char(s, j + 1) = "\n")}

\* the lines of s from position start on, ends being the line ends from there
RECURSIVE LinesFrom(_, _, _)
LinesFrom(s, start, ends) ==
    IF ends = {}
    THEN IF start > Len(s) THEN <<>> ELSE <<SubSeq(s, start, Len(s))>>
    ELSE LET end == CHOOSE e \in ends : \A c \in ends : e <= c
         IN  <<SubSeq(s, start, end)>> \o LinesFrom(s, end + 1, ends \ {end})

\* source.splitlines(keepends=True)
SplitLinesKeepEnds(s) == LinesFrom(s, 1, LineEnds(s))

\* list.insert(i, x) with a 0-based index i >= 0 (an index past the end appends)
ListInsert(lines, i, x) ==
    IF i >= Len(lines)
    THEN Append(lines, x)
    ELSE SubSeq(lines, 1, i) \o <<x>> \o SubSeq(lines, i + 1, Len(lines))

\* the smallest member of a non-empty set of indexes
MinOf(S) == CHOOSE i \in S : \A j \in S : i <= j

\* the 0-based indexes of the lines that start with prefix / contain needle
IndexesStartingWith(lines, prefix) ==
    {i \in 0..(Len(lines) - 1) : StartsWith(lines[i + 1], prefix)}

IndexesContaining(lines, needle) ==
    {i \in 0..(Len(lines) - 1) : Contains(lines[i + 1], needle)}

\* any(needle in line for line in lines)
AnyContains(lines, needle) == \E k \in 1..Len(lines) : Contains(lines[k], needle)

(***************************************************************************)
(* The patcher's fixed literal lines.                                       *)
(***************************************************************************)
block == <<
    "soil_moisture_layer = None\n",
    "try:\n",
    "    soil_moisture_dataset = 'NASA_USDA/HSL/SMAP10KM_soil_moisture'\n",
    "    soil_moisture_collection = (\n",
    "        ee.ImageCollection(soil_moisture_dataset)\n",
    "        .filterDate(start_date_recent, end_date_recent)\n",
    "        .filterBounds(roi)\n",
    "    )\n",
    "    soil_moisture_count = soil_moisture_collection.size().getInfo() or 0\n",
    "    if soil_moisture_count > 0:\n",
    "        soil_moisture_layer = soil_moisture_collection.select('ssm').mean().clip(roi)\n",
    "        print(f'Soil moisture images used: {soil_moisture_count}')\n",
    "    else:\n",
    "        print('No soil moisture data available for the selected period.')\n",
    "except Exception as exc:\n",
    "    soil_moisture_layer = None\n",
    "    print(f'Soil moisture layer unavailable: {exc}')\n" >>

SoilMoistureVizLine ==
    "soil_moisture_viz = {'min': 0.0, 'max': 0.6, 'palette': ['#f7fcf5', '#74c476', '#00441b']}\n"

SlopeVizLine ==
    "slope_viz = {'min': 0, 'max': 45, 'palette': ['#ffffcc', '#fd8d3c', '#800026']}\n"

additions == <<
    "if soil_moisture_layer is not None:\n",
    "    m.add_layer(soil_moisture_layer, soil_moisture_viz, 'Soil Moisture (SMAP)')\n",
    "m.add_layer(slope.clip(roi), slope_viz, 'Slope (degrees)')\n" >>

SlopeLayerLine == "m.add_layer(slope.clip(roi), slope_viz, 'Slope (degrees)')\n"

(***************************************************************************)
(* modify_nb.py: the helpers and the two cell updates of main().            *)
(***************************************************************************)
\* ensure_list_source(cell): the pair (lines, was_list)
ensure_list_source(cell) ==
    IF cell.source.isList
    THEN [lines |-> cell.source.lines, was_list |-> TRUE]
    ELSE [lines |-> SplitLinesKeepEnds(cell.source.text), was_list |-> FALSE]

\* a variant of assign_source that forgets the representation and always
\* stores the joined string
assign_source_Joined(cell, lines, was_list) ==
    [cell EXCEPT !.source = [isList |-> FALSE, text |-> Join(lines)]]

\* assign_source(cell, lines, was_list): the cell with its source set
assign_source(cell, lines, was_list) ==
    IF was_list
    THEN [cell EXCEPT !.source = [isList |-> TRUE, lines |-> lines]]
    ELSE [cell EXCEPT !.source = [isList |-> FALSE, text |-> Join(lines)]]

\* a variant of AppendBlock that leaves out the "\n" put before the block
AppendBlock_NoBlank(lines5) ==
    LET sep == IF lines5 # <<>> /\ lines5[Len(lines5)] # "\n"
               THEN Append(lines5, "\n")
               ELSE lines5
    IN  sep \o block

\* lines5 after the block is appended (the body of the marker test)
AppendBlock(lines5) ==
    LET sep == IF lines5 # <<>> /\ lines5[Len(lines5)] # "\n"
               THEN Append(lines5, "\n")
               ELSE lines5
    IN  sep \o (<<"\n">> \o block)

\* lines5 after the update of the processing cell
PatchLines5(lines5) ==
    IF ~AnyContains(lines5, "soil_moisture_layer")
    THEN AppendBlock(lines5)
    ELSE lines5

\* cell5 after the update: the source is assigned only inside the marker test
UpdatedCell5(cell5) ==
    LET e == ensure_list_source(cell5)
    IN  IF ~AnyContains(e.lines, "soil_moisture_layer")
        THEN assign_source(cell5, AppendBlock(e.lines), e.was_list)
        ELSE cell5

\* a variant of VizStep that takes index 0 for a missing anchor instead of
\* skipping the insertion
VizStep_DefaultIdx(lines7) ==
    LET found == IndexesStartingWith(lines7, "change_viz")
        idx == IF found = {} THEN 0 ELSE MinOf(found)
    IN  IF ~AnyContains(lines7, "soil_moisture_viz")
        THEN [lines |-> ListInsert(lines7, idx + 1, SoilMoistureVizLine),
              viz_inserted |-> TRUE]
        ELSE [lines |-> lines7, viz_inserted |-> FALSE]

\* lines7 and viz_inserted after the soil_moisture_viz step
VizStep(lines7) ==
    LET found == IndexesStartingWith(lines7, "change_viz")
    IN  IF ~AnyContains(lines7, "soil_moisture_viz") /\ found # {}
        THEN [lines |-> ListInsert(lines7, MinOf(found) + 1, SoilMoistureVizLine),
              viz_inserted |-> TRUE]
        ELSE [lines |-> lines7, viz_inserted |-> FALSE]

\* a variant of SlopeVizStep whose offset forgets the line inserted before
SlopeVizStep_Offset1(lines7, viz_inserted) ==
    LET found == IndexesStartingWith(lines7, "change_viz")
    IN  IF ~AnyContains(lines7, "slope_viz") /\ found # {}
        THEN ListInsert(lines7, MinOf(found) + 1, SlopeVizLine)
        ELSE lines7

\* lines7 after the slope_viz step
SlopeVizStep(lines7, viz_inserted) ==
    LET found == IndexesStartingWith(lines7, "change_viz")
        offset == IF viz_inserted THEN 2 ELSE 1
    IN  IF ~AnyContains(lines7, "slope_viz") /\ found # {}
        THEN ListInsert(lines7, MinOf(found) + offset, SlopeVizLine)
        ELSE lines7

\* for offset, new_line in enumerate(additions): lines7.insert(idx + offset, new_line)
RECURSIVE InsertAll(_, _, _, _)
InsertAll(lines7, idx, news, offset) ==
    IF offset >= Len(news)
    THEN lines7
    ELSE InsertAll(ListInsert(lines7, idx + offset, news[offset + 1]),
                   idx, news, offset + 1)

\* lines7 after the layer step
LayerStep(lines7) ==
    LET found == IndexesContaining(lines7, "m.add_layer(risk_hotspots")
    IN  IF ~AnyContains(lines7, "Soil Moisture (SMAP)")
        THEN IF found # {}
             THEN InsertAll(lines7, MinOf(found), additions, 0)
             ELSE lines7
        ELSE IF ~AnyContains(lines7, "Slope (degrees)")
             THEN IF found # {}
                  THEN ListInsert(lines7, MinOf(found), SlopeLayerLine)
                  ELSE lines7
             ELSE lines7

\* lines7 after the update of the visualization cell
PatchLines7(lines7) ==
    LET v == VizStep(lines7)
    IN  LayerStep(SlopeVizStep(v.lines, v.viz_inserted))


\* cell7 after the update: the source is always assigned
UpdatedCell7(cell7) ==
    LET e == ensure_list_source(cell7)
    IN  assign_source(cell7, PatchLines7(e.lines), e.was_list)

(***************************************************************************)
(* The documents the patcher is run on.                                     *)
(***************************************************************************)
\* "x" \o VT \o "\n" is one line in a list and two lines in a string
Pool5 == {"x = 1\n", "\n", "soil_moisture_layer = None\n", "x" \o VT \o "\n"}

\* the last line ends in the layer anchor less its last character: left
\* unterminated in a string, the join with an inserted literal completes it
Pool7 == {"change_viz = {}\n",
          "m.add_layer(risk_hotspots, hotspot_viz, 'Risk Hotspots')\n",
          "soil_moisture_viz = {}\n",
          "slope_viz = {}\n",
          "# Soil Moisture (SMAP)\n",
          "# Slope (degrees)\n",
          "m = 1" \o VT \o "change_viz = {}\r\n",
          "change_viz = m.add_layer(risk_hotspot\n"}

SeqsUpTo(S, n) == UNION {[1..k -> S] : k \in 0..n}

\* lines with the line ending of the last line removed (a cell whose last
\* line is not terminated, as notebooks usually store it)
Unterminated(lines) ==
    LET n == Len(lines)
        last == IF n = 0 THEN "" ELSE lines[n]
    IN  IF n > 0 /\ Len(last) > 1 /\ Char(last, Len(last)) = "\n"
        THEN [lines EXCEPT ![n] = SubSeq(last, 1, Len(last) - 1)]
        ELSE lines

Source(lines, isList) ==
    IF isList
    THEN [isList |-> TRUE, lines |-> lines]
    ELSE [isList |-> FALSE, text |-> Join(lines)]

Sources(S, n) ==
    {Source(IF cut THEN Unterminated(l) ELSE l, isList) :
        l \in SeqsUpTo(S, n), cut \in BOOLEAN, isList \in BOOLEAN}

Metadata == [kernelspec |-> "python3", language_info |-> "python"]

\* the text of the cell at 0-based index k, when it is not cell 5 or cell 7
FillerText(k) == "c" \o ToString(k) \o "\n"

CellTypes == {"code", "markdown"}

\* a document of n cells with the given cells at index 5 and index 7
Document(n, type5, type7, source5, source7) ==
    [cells |->
        [k \in 1..n |->
            IF k = 6 THEN [cell_type |-> type5, source |-> source5]
            ELSE IF k = 8 THEN [cell_type |-> type7, source |-> source7]
            ELSE [cell_type |-> IF k \in {1, 4} THEN "markdown" ELSE "code",
                  source |-> [isList |-> FALSE, text |-> FillerText(k - 1)]]],
     metadata |-> Metadata]

\* eight code cells at the expected places, up to MaxLines lines over both cells
KnownDocuments ==
    {Document(8, "code", "code", s5, s7) :
        <<s5, s7>> \in UNION {Sources(Pool5, a) \X Sources(Pool7, MaxLines - a) :
                                a \in 0..MaxLines}}

\* any number of cells and any cell types, with at most one line per cell
OtherDocuments ==
    {Document(n, t[1], t[2], s5, s7) :
        n \in 5..MaxCells, t \in CellTypes \X CellTypes,
        s5 \in Sources(Pool5, 1), s7 \in Sources(Pool7, 1)}

Documents == KnownDocuments \cup OtherDocuments

NoDocument == [cells |-> <<>>, metadata |-> Metadata]

(***************************************************************************)
(* notebook_builder.py: the cell constructors and the literal cells of the  *)
(* first notebook, GeoSafeMonitor.ipynb.                                    *)
(***************************************************************************)
\* markdown_cell(text)
markdown_cell(text) ==
    [cell_type |-> "markdown",
     metadata |-> <<>>,
     source |-> [isList |-> TRUE, lines |-> <<text>>]]

\* code_cell(lines): every line gets its newline
code_cell(lines) ==
    [cell_type |-> "code",
     execution_count |-> "None",
     metadata |-> <<>>,
     outputs |-> <<>>,
     source |-> [isList |-> TRUE,
                 lines |-> [i \in 1..Len(lines) |-> lines[i] \o "\n"]]]

\* the text of cell 0 (markdown_cell)
CellArg0 ==
    "# Geo-Safe Monitor PH: Landslide Risk POC\n\nThis notebook mirrors the prototype workflow for monitoring vegetation change over Baungon, Bukidnon using Sentinel-2 imagery. It incorporates the fixes highlighted in the earlier code review, including reliable dependency handling, historical data availability checks, and explicit map rendering.\n"

\* the lines of cell 1 (code_cell)
CellArg1 == <<
    "import importlib.util",
    "import subprocess",
    "import sys",
    "",
    "DEPENDENCIES = {",
    "    'ee': 'earthengine-api',",
    "    'geemap': 'geemap',",
    "    'pandas': 'pandas',",
    "    'matplotlib': 'matplotlib',",
    "}",
    "",
    "for module_name, package_name in DEPENDENCIES.items():",
    "    if importlib.util.find_spec(module_name) is None:",
    "        print(f'Installing {package_name}...')",
    "        subprocess.check_call([sys.executable, '-m', 'pip', 'install', package_name])" >>

\* the lines of cell 2 (code_cell)
CellArg2 == <<
    "import ee",
    "import geemap",
    "import pandas as pd",
    "import matplotlib.pyplot as plt",
    "",
    "try:",
    "    ee.Initialize()",
    "    print('Google Earth Engine initialized.')",
    "except Exception:",
    "    print('Authenticating with Google Earth Engine...')",
    "    ee.Authenticate()",
    "    ee.Initialize()",
    "    print('Authentication complete.')" >>

\* the text of cell 3 (markdown_cell)
CellArg3 ==
    "## Configuration and Helper Functions\n\nDefine the ROI, time windows, and utility functions for cloud masking, NDVI computation, and data sourcing with a fallback for historical imagery.\n"

\* the lines of cell 4 (code_cell)
CellArg4 == <<
    "def mask_s2_clouds(image):",
    "    \"\"\"Mask clouds in a Sentinel-2 image using the QA60 band.\"\"\"",
    "    qa = image.select('QA60')",
    "    cloud_bit_mask = 1 << 10",
    "    cirrus_bit_mask = 1 << 11",
    "    mask = qa.bitwiseAnd(cloud_bit_mask).eq(0).And(qa.bitwiseAnd(cirrus_bit_mask).eq(0))",
    "    return image.updateMask(mask).divide(10000)",
    "",
    "",
    "def add_ndvi(image):",
    "    \"\"\"Add an NDVI band to a Sentinel-2 image.\"\"\"",
    "    ndvi = image.normalizedDifference(['B8', 'B4']).rename('NDVI')",
    "    return image.addBands(ndvi)",
    "",
    "",
    "def get_sentinel_collection(start_date, end_date, region, max_cloud=20):",
    "    sr_id = 'COPERNICUS/S2_SR_HARMONIZED'",
    "    sr_collection = (",
    "        ee.ImageCollection(sr_id)",
    "        .filterDate(start_date, end_date)",
    "        .filterBounds(region)",
    "        .filter(ee.Filter.lt('CLOUDY_PIXEL_PERCENTAGE', max_cloud))",
    "    )",
    "",
    "    sr_count = sr_collection.size().getInfo() or 0",
    "    if sr_count > 0:",
    "        return sr_collection, sr_id",
    "",
    "    toa_id = 'COPERNICUS/S2'",
    "    toa_collection = (",
    "        ee.ImageCollection(toa_id)",
    "        .filterDate(start_date, end_date)",
    "        .filterBounds(region)",
    "        .filter(ee.Filter.lt('CLOUDY_PIXEL_PERCENTAGE', max_cloud))",
    "    )",
    "",
    "    toa_count = toa_collection.size().getInfo() or 0",
    "    if toa_count == 0:",
    "        raise RuntimeError(",
    "            f'No Sentinel-2 imagery available for {start_date} to {end_date} in the selected ROI.'",
    "        )",
    "",
    "    print(f'Fallback to {toa_id} for {start_date} - {end_date}.')",
    "    return toa_collection, toa_id" >>

\* the lines of cell 5 (code_cell)
CellArg5 == <<
    "roi = ee.Geometry.Rectangle([124.60, 8.30, 124.70, 8.40])",
    "",
    "start_date_recent = '2024-01-01'",
    "end_date_recent = '2024-12-31'",
    "start_date_historical = '2015-01-01'",
    "end_date_historical = '2015-12-31'",
    "",
    "VEGETATION_LOSS_THRESHOLD = -0.15",
    "",
    "recent_collection, recent_dataset = get_sentinel_collection(start_date_recent, end_date_recent, roi)",
    "historical_collection, historical_dataset = get_sentinel_collection(start_date_historical, end_date_historical, roi)",
    "",
    "recent_image = recent_collection.map(mask_s2_clouds).median()",
    "recent_image_with_ndvi = add_ndvi(recent_image)",
    "",
    "historical_image = historical_collection.map(mask_s2_clouds).median()",
    "historical_image_with_ndvi = add_ndvi(historical_image)",
    "",
    "print(f'Using {recent_dataset} for the recent period and {historical_dataset} for the historical baseline.')" >>

\* the lines of cell 6 (code_cell)
CellArg6 == <<
    "ndvi_difference = recent_image_with_ndvi.select('NDVI').subtract(",
    "    historical_image_with_ndvi.select('NDVI')",
    ")",
    "",
    "mean_ndvi_change_dict = ndvi_difference.reduceRegion(",
    "    reducer=ee.Reducer.mean(),",
    "    geometry=roi,",
    "    scale=30,",
    ")",
    "",
    "mean_ndvi_change_value = None",
    "mean_ndvi_change = mean_ndvi_change_dict.get('NDVI')",
    "if mean_ndvi_change is not None:",
    "    try:",
    "        mean_ndvi_change_value = mean_ndvi_change.getInfo()",
    "    except Exception as exc:",
    "        print(f'Unable to retrieve NDVI change: {exc}')",
    "",
    "if mean_ndvi_change_value is None:",
    "    alert_message = (",
    "        '>>> DATA WARNING: Unable to compute NDVI change for the selected period.\\n'",
    "        '>>> Please verify imagery availability or adjust the ROI and time range.\\n'",
    "    )",
    "    print('Average NDVI change could not be determined.')",
    "else:",
    "    print(f'Average NDVI Change from 2015 to 2024: {mean_ndvi_change_value:.4f}')",
    "    if mean_ndvi_change_value < VEGETATION_LOSS_THRESHOLD:",
    "        alert_message = (",
    "            '>>> RISK DETECTED: Significant vegetation loss identified.\\n'",
    "            '>>> This area is flagged as a high-risk hotspot.\\n'",
    "            '>>> Recommendation: Deploy Geo-Safe Sensor Nodes to this location.'",
    "        )",
    "    else:",
    "        alert_message = (",
    "            '>>> MONITORING: No significant large-scale vegetation loss detected.\\n'",
    "            '>>> Continue routine satellite monitoring of this area.'",
    "        )",
    "",
    "print('\n------------------------------------------------------------')",
    "print(''.join(alert_message))",
    "print('------------------------------------------------------------')" >>

\* the lines of cell 7 (code_cell)
CellArg7 == <<
    "rgb_viz = {'min': 0.0, 'max': 0.3, 'bands': ['B4', 'B3', 'B2']}",
    "ndvi_viz = {'min': 0, 'max': 1, 'palette': ['blue', 'white', 'green']}",
    "change_viz = {'min': -0.5, 'max': 0.5, 'palette': ['red', 'white', 'green']}",
    "",
    "m = geemap.Map(center=[8.35, 124.65], zoom=12)",
    "m.add_layer(recent_image.clip(roi), rgb_viz, 'Recent Image (2024)')",
    "m.add_layer(historical_image.clip(roi), rgb_viz, 'Historical Image (2015)')",
    "m.add_layer(recent_image_with_ndvi.select('NDVI').clip(roi), ndvi_viz, 'Recent NDVI (Vegetation Health)')",
    "m.add_layer(ndvi_difference.clip(roi), change_viz, 'NDVI Change (Red indicates loss)')",
    "m.addLayerControl()",
    "m" >>

\* a variant of the script without its first cells.append(...) statement
BuilderProgram_Short == <<
    code_cell(CellArg1),
    code_cell(CellArg2),
    markdown_cell(CellArg3),
    code_cell(CellArg4),
    code_cell(CellArg5),
    code_cell(CellArg6),
    code_cell(CellArg7) >>

\* the cells.append(...) statements of the script, in order
BuilderProgram == <<
    markdown_cell(CellArg0),
    code_cell(CellArg1),
    code_cell(CellArg2),
    markdown_cell(CellArg3),
    code_cell(CellArg4),
    code_cell(CellArg5),
    code_cell(CellArg6),
    code_cell(CellArg7) >>

\* the notebook dictionary written to GeoSafeMonitor.ipynb
notebook(cs) ==
    [cells |-> cs,
     metadata |-> [kernelspec |-> [display_name |-> "Python 3",
                                   language |-> "python",
                                   name |-> "python3"],
                   language_info |-> [file_extension |-> ".py",
                                      mimetype |-> "text/x-python",
                                      name |-> "python",
                                      nbconvert_exporter |-> "python",
                                      pygments_lexer |-> "ipython3",
                                      version |-> "3.11"]],
     nbformat |-> 4,
     nbformat_minor |-> 5]

(***************************************************************************)
(* State.                                                                   *)
(***************************************************************************)
VARIABLES
    file,          \* GeoSafeMonitor_NDVI.ipynb as stored
    nb,            \* the document main() holds in memory
    lines5,        \* main()'s local lines5
    lines7,        \* main()'s local lines7
    viz_inserted,  \* main()'s local viz_inserted
    pc,            \* where main() is: "idle", "read", "cell5", "cell7", "write", "done", "fault"
    runs,          \* how many times main() has been started
    before,        \* the stored document when the current run read it
    cells,         \* notebook_builder.py's list cells
    built          \* GeoSafeMonitor.ipynb as stored, <<>> while not written

patcher == <<file, nb, lines5, lines7, viz_inserted, pc, runs, before>>
builder == <<cells, built>>
vars == <<patcher, builder>>

Init ==
    /\ file = NoDocument
    /\ nb = NoDocument
    /\ lines5 = <<>>
    /\ lines7 = <<>>
    /\ viz_inserted = FALSE
    /\ pc = "idle"
    /\ runs = 0
    /\ before = NoDocument
    /\ cells = <<>>
    /\ built = <<>>

\* one cells.append(...) statement of notebook_builder.py
BuilderAppend ==
    /\ pc = "idle"
    /\ built = <<>>
    /\ Len(cells) < Len(BuilderProgram)
    /\ cells' = Append(cells, BuilderProgram[Len(cells) + 1])
    /\ UNCHANGED <<patcher, built>>

\* Path("GeoSafeMonitor.ipynb").write_text(json.dumps(notebook, indent=1))
BuilderWrite ==
    /\ pc = "idle"
    /\ built = <<>>
    /\ Len(cells) = Len(BuilderProgram)
    /\ built' = <<notebook(cells)>>
    /\ UNCHANGED <<patcher, cells>>

\* a notebook is put at the patcher's path and main() is started.  The two
\* scripts share no file, so a behaviour runs one of them: the patcher starts
\* where the builder has not, and the builder steps while the patcher is idle
PlaceNotebook ==
    /\ pc = "idle"
    /\ cells = <<>>
    /\ built = <<>>
    /\ \E d \in Documents : file' = d
    /\ pc' = "read"
    /\ runs' = 1
    /\ UNCHANGED <<nb, lines5, lines7, viz_inserted, before, builder>>

\* nb = nbformat.read(path, as_version=4)
Read ==
    /\ pc = "read"
    /\ nb' = file
    /\ before' = file
    /\ lines5' = <<>>
    /\ lines7' = <<>>
    /\ viz_inserted' = FALSE
    /\ pc' = "cell5"
    /\ UNCHANGED <<file, runs, builder>>

\* nb["cells"][5] / nb["cells"][7] is out of range: IndexError
Cell5Missing == Len(nb.cells) <= 5

Cell7Missing == Len(nb.cells) <= 7

\* cell5 = nb["cells"][5] with no such cell: the run ends in the fault
FaultCell5 ==
    /\ pc = "cell5"
    /\ Cell5Missing
    /\ pc' = "fault"
    /\ UNCHANGED <<file, nb, lines5, lines7, viz_inserted, runs, before, builder>>

\* a variant of UpdateCell5 that stores the document as soon as cell 5 is updated
UpdateCell5_Saves ==
    /\ pc = "cell5"
    /\ ~Cell5Missing
    /\ lines5' = PatchLines5(ensure_list_source(nb.cells[6]).lines)
    /\ nb' = [nb EXCEPT !.cells[6] = UpdatedCell5(nb.cells[6])]
    /\ file' = nb'
    /\ pc' = "cell7"
    /\ UNCHANGED <<lines7, viz_inserted, runs, before, builder>>

\* the update of the processing cell (cell index 5)
UpdateCell5 ==
    /\ pc = "cell5"
    /\ ~Cell5Missing
    /\ lines5' = PatchLines5(ensure_list_source(nb.cells[6]).lines)
    /\ nb' = [nb EXCEPT !.cells[6] = UpdatedCell5(nb.cells[6])]
    /\ pc' = "cell7"
    /\ UNCHANGED <<file, lines7, viz_inserted, runs, before, builder>>

\* cell7 = nb["cells"][7] with no such cell: the run ends in the fault
FaultCell7 ==
    /\ pc = "cell7"
    /\ Cell7Missing
    /\ pc' = "fault"
    /\ UNCHANGED <<file, nb, lines5, lines7, viz_inserted, runs, before, builder>>

\* a variant of UpdateCell7 that faults on a cell that is not a code cell
UpdateCell7_CodeOnly ==
    /\ pc = "cell7"
    /\ ~Cell7Missing
    /\ IF nb.cells[8].cell_type = "code"
       THEN /\ lines7' = PatchLines7(ensure_list_source(nb.cells[8]).lines)
            /\ viz_inserted' = VizStep(ensure_list_source(nb.cells[8]).lines).viz_inserted
            /\ nb' = [nb EXCEPT !.cells[8] = UpdatedCell7(nb.cells[8])]
            /\ pc' = "write"
       ELSE /\ pc' = "fault"
            /\ UNCHANGED <<lines7, viz_inserted, nb>>
    /\ UNCHANGED <<file, lines5, runs, before, builder>>

\* the update of the visualization cell (cell index 7)
UpdateCell7 ==
    /\ pc = "cell7"
    /\ ~Cell7Missing
    /\ lines7' = PatchLines7(ensure_list_source(nb.cells[8]).lines)
    /\ viz_inserted' = VizStep(ensure_list_source(nb.cells[8]).lines).viz_inserted
    /\ nb' = [nb EXCEPT !.cells[8] = UpdatedCell7(nb.cells[8])]
    /\ pc' = "write"
    /\ UNCHANGED <<file, lines5, runs, before, builder>>

\* a variant of Write that stores the first 8 cells only
Write_Truncated ==
    /\ pc = "write"
    /\ file' = [nb EXCEPT !.cells = SubSeq(nb.cells, 1, 8)]
    /\ pc' = "done"
    /\ UNCHANGED <<nb, lines5, lines7, viz_inserted, runs, before, builder>>

\* nbformat.write(nb, path)
Write ==
    /\ pc = "write"
    /\ file' = nb
    /\ pc' = "done"
    /\ UNCHANGED <<nb, lines5, lines7, viz_inserted, runs, before, builder>>

\* the script is run again on the stored file
Rerun ==
    /\ pc \in {"done", "fault"}
    /\ runs < MaxRuns
    /\ runs' = runs + 1
    /\ pc' = "read"
    /\ UNCHANGED <<file, nb, lines5, lines7, viz_inserted, before, builder>>

Next ==
    \/ BuilderAppend
    \/ BuilderWrite
    \/ PlaceNotebook
    \/ Read
    \/ FaultCell5
    \/ UpdateCell5
    \/ FaultCell7
    \/ UpdateCell7
    \/ Write
    \/ Rerun

Spec == Init /\ [][Next]_vars

(***************************************************************************)
(* Vocabulary of the properties.                                            *)
(***************************************************************************)
\* the concatenated content of a source, whichever its representation
SourceText(source) == IF source.isList THEN Join(source.lines) ELSE source.text

\* the lines of the cell at 0-based index k of document d
CellLines(d, k) == ensure_list_source(d.cells[k + 1]).lines

\* main() has read the document and not yet been started again
InRun == pc \in {"cell5", "cell7", "write", "done", "fault"}

\* the document of the current run has the cells at index 5 and index 7
EightCells == InRun /\ Len(before.cells) >= 8

\* every line the patcher can insert
LiteralLines ==
    {block[k] : k \in 1..Len(block)} \cup {additions[k] : k \in 1..Len(additions)}
        \cup {"\n", SoilMoistureVizLine, SlopeVizLine, SlopeLayerLine}

\* s ends with suffix
EndsWith(s, suffix) ==
    /\ Len(s) >= Len(suffix)
    /\ SubSeq(s, Len(s) - Len(suffix) + 1, Len(s)) = suffix

\* text[i..] is spread over the lines outLines[k..] in order, every other
\* piece of those lines being a literal line of the patcher (a literal ends
\* with a newline, so it is a whole line or the end of one)
RECURSIVE SplicedFrom(_, _, _, _)
SplicedFrom(text, outLines, i, k) ==
    IF k > Len(outLines)
    THEN i > Len(text)
    ELSE LET ol == outLines[k]
         IN  \/ /\ ol \in LiteralLines
                /\ SplicedFrom(text, outLines, i, k + 1)
             \/ /\ Len(text) - i + 1 >= Len(ol)
                /\ SubSeq(text, i, i + Len(ol) - 1) = ol
                /\ SplicedFrom(text, outLines, i + Len(ol), k + 1)
             \/ \E L \in LiteralLines :
                    LET n == Len(ol) - Len(L)
                    IN  /\ n > 0
                        /\ EndsWith(ol, L)
                        /\ Len(text) - i + 1 >= n
                        /\ SubSeq(text, i, i + n - 1) = SubSeq(ol, 1, n)
                        /\ SplicedFrom(text, outLines, i + n, k + 1)

\* newText is oldText with literal lines of the patcher added and nothing else
OnlyLiteralsAdded(oldText, newText) ==
    SplicedFrom(oldText, SplitLinesKeepEnds(newText), 1, 1)

(***************************************************************************)
(* C1. Idempotence: a second or later run of main() on a document of at     *)
(* least 8 cells leaves the stored document equal to the one it read, and    *)
(* adds no line to cell 5 or cell 7.                                        *)
(* It fails for a string source of cell 7 whose unterminated last line is    *)
(* the change_viz anchor and ends in "m.add_layer(risk_hotspot": the join    *)
(* of assign_source fuses that line with the inserted literal               *)
(* "soil_moisture_viz = ..." into a line that contains the layer anchor,     *)
(* and the second run inserts the layer lines before it.                     *)
(***************************************************************************)
C1_Idempotent ==
    (pc = "done" /\ runs >= 2) =>
        /\ file = before
        /\ lines5 = CellLines(before, 5)
        /\ lines7 = CellLines(before, 7)

(***************************************************************************)
(* C2. Representation round trip: after a run, the source of cell 5 and of  *)
(* cell 7 has the representation it had (string or list), and its content   *)
(* is the content it had with literal lines of the patcher added and         *)
(* nothing else; with no insertion the content is the same.                  *)
(***************************************************************************)
RoundTrip(k) ==
    LET old == before.cells[k + 1].source
        new == file.cells[k + 1].source
    IN  /\ new.isList = old.isList
        /\ OnlyLiteralsAdded(SourceText(old), SourceText(new))
        /\ Len(SourceText(new)) >= Len(SourceText(old))
        /\ CellLines(file, k) = CellLines(before, k) => new = old

C2_RoundTrip == pc = "done" => RoundTrip(5) /\ RoundTrip(7)

\* a run has ended that inserted lines into a string cell 5 and into a list
\* cell 7
C2_Witness ==
    /\ pc = "done"
    /\ ~file.cells[6].source.isList
    /\ file.cells[6].source # before.cells[6].source
    /\ file.cells[8].source.isList
    /\ file.cells[8].source # before.cells[8].source

(***************************************************************************)
(* C3. Order preservation: after a run, the lines cell 5 and cell 7 had are  *)
(* a subsequence of the lines the cell has, in the same order, and every     *)
(* other line of the cell is a literal line of the patcher.  A line is       *)
(* compared without its line ending, so that a last line that only gains     *)
(* its newline counts as kept.                                               *)
(***************************************************************************)
\* line without its line ending
Body(line) ==
    IF EndsWith(line, "\r\n") THEN SubSeq(line, 1, Len(line) - 2)
    ELSE IF Len(line) > 0 /\ Char(line, Len(line)) \in LineBreaks
         THEN SubSeq(line, 1, Len(line) - 1)
         ELSE line

\* old[i..] is a subsequence of new[k..], every other line of new[k..]
\* being a literal line of the patcher
RECURSIVE KeptInOrder(_, _, _, _)
KeptInOrder(old, new, i, k) ==
    IF k > Len(new)
    THEN i > Len(old)
    ELSE \/ /\ i <= Len(old)
            /\ Body(old[i]) = Body(new[k])
            /\ KeptInOrder(old, new, i + 1, k + 1)
         \/ /\ new[k] \in LiteralLines
            /\ KeptInOrder(old, new, i, k + 1)

C3_OrderPreserved ==
    pc = "done" =>
        \A k \in {5, 7} : KeptInOrder(CellLines(before, k), CellLines(file, k), 1, 1)

(***************************************************************************)
(* C4. Soil-moisture block: when no line of cell 5 contains                  *)
(* "soil_moisture_layer", the update of cell 5 keeps the lines the cell had  *)
(* as a prefix and ends the cell with the block of 17 lines, the line        *)
(* before the block being "\n": the block alone after "\n" for an empty      *)
(* cell, one "\n" added after a last line "\n", two after any other.         *)
(***************************************************************************)
C4_BlockAppended ==
    (pc \in {"cell7", "write", "done"}
        /\ ~AnyContains(CellLines(before, 5), "soil_moisture_layer")) =>
        LET old == CellLines(before, 5)
            n == Len(lines5)
            gap == IF old = <<>> \/ old[Len(old)] = "\n" THEN 1 ELSE 2
            new == CellLines(nb, 5)
        IN  /\ Len(block) = 17
            /\ block[1] = "soil_moisture_layer = None\n"
            /\ n = Len(old) + gap + 17
            /\ SubSeq(lines5, 1, Len(old)) = old
            /\ \A k \in (Len(old) + 1)..(n - 17) : lines5[k] = "\n"
            /\ SubSeq(lines5, n - 16, n) = block
            /\ SourceText(nb.cells[6].source) = Join(lines5)
            /\ Len(new) >= 18
            /\ SubSeq(new, Len(new) - 16, Len(new)) = block
            /\ new[Len(new) - 17] = "\n"

\* the block was appended to a string cell whose last line had no newline,
\* and the document was written
C4_Witness ==
    /\ pc = "done"
    /\ before.cells[6].source = [isList |-> FALSE, text |-> "\nx = 1"]
    /\ file.cells[6].source.text = "\nx = 1\n\n" \o Join(block)

(***************************************************************************)
(* C5. Slope visualization: when cell 7 has a line starting with             *)
(* "change_viz" and no line containing "slope_viz", the update of cell 7     *)
(* inserts the slope_viz literal once: right after the first line starting   *)
(* with "change_viz", or one place later, right after the soil_moisture_viz  *)
(* literal, exactly when that literal was inserted in the same run.          *)
(***************************************************************************)
C5_SlopeVizPlaced ==
    (pc \in {"write", "done"}
        /\ IndexesStartingWith(CellLines(before, 7), "change_viz") # {}
        /\ ~AnyContains(CellLines(before, 7), "slope_viz")) =>
        LET old == CellLines(before, 7)
            idx == MinOf(IndexesStartingWith(old, "change_viz"))
            j == MinOf(IndexesStartingWith(lines7, "change_viz"))
        IN  /\ Cardinality({k \in 1..Len(lines7) : lines7[k] = SlopeVizLine}) = 1
            /\ lines7[j + 1] = old[idx + 1]
            /\ viz_inserted <=> ~AnyContains(old, "soil_moisture_viz")
            /\ IF viz_inserted
               THEN /\ lines7[j + 2] = SoilMoistureVizLine
                    /\ lines7[j + 3] = SlopeVizLine
               ELSE lines7[j + 2] = SlopeVizLine
            /\ Contains(SourceText(nb.cells[8].source),
                        old[idx + 1]
                            \o (IF viz_inserted THEN SoilMoistureVizLine ELSE "")
                            \o SlopeVizLine)

\* both literals were inserted after an anchor that follows the layer anchor
C5_Witness ==
    /\ pc = "done"
    /\ viz_inserted
    /\ Len(lines7) = 7
    /\ lines7[5] = "change_viz = {}\n"
    /\ lines7[6] = SoilMoistureVizLine
    /\ lines7[7] = SlopeVizLine

(***************************************************************************)
(* C6. Assembler: as stated, GeoSafeMonitor.ipynb has exactly 8 cells whose *)
(* types alternate between markdown and code, and the source of its last    *)
(* cell contains m.addLayerControl().                                       *)
(***************************************************************************)
C6_Alternating ==
    built # <<>> =>
        LET cs == built[1].cells
        IN  /\ Len(cs) = 8
            /\ \A k \in 1..(Len(cs) - 1) : cs[k].cell_type # cs[k + 1].cell_type
            /\ Contains(SourceText(cs[Len(cs)].source), "m.addLayerControl()")

(***************************************************************************)
(* C6, amended. GeoSafeMonitor.ipynb has exactly 8 cells in the fixed       *)
(* pattern markdown, code, code, markdown, code, code, code, code, and the  *)
(* source of its last cell contains m.addLayerControl().                    *)
(***************************************************************************)
C6_FixedPattern ==
    built # <<>> =>
        LET cs == built[1].cells
        IN  /\ Len(cs) = 8
            /\ [k \in 1..Len(cs) |-> cs[k].cell_type]
                   = <<"markdown", "code", "code", "markdown",
                       "code", "code", "code", "code">>
            /\ Contains(SourceText(cs[Len(cs)].source), "m.addLayerControl()")

\* the builder has written the notebook
C6_Witness == built # <<>> /\ Len(cells) = 8

(***************************************************************************)
(* C7. Missing anchor: in a document of at least 8 cells whose cell 7 has   *)
(* no line starting with "change_viz" or no line containing                 *)
(* "m.add_layer(risk_hotspots", the run never faults (both cells are there);     *)
(* the steps that need the missing anchor insert nothing, the other steps   *)
(* and the cell 5 block are applied, and the document is written.           *)
(***************************************************************************)
NoChangeViz == IndexesStartingWith(CellLines(before, 7), "change_viz") = {}

NoRiskHotspots == IndexesContaining(CellLines(before, 7), "m.add_layer(risk_hotspots") = {}

Has(lines, line) == \E k \in 1..Len(lines) : lines[k] = line

C7_MissingAnchorTolerated ==
    (EightCells /\ (NoChangeViz \/ NoRiskHotspots)) =>
        LET old == CellLines(before, 7)
        IN  /\ pc # "fault"
            /\ ~Cell5Missing
            /\ ~Cell7Missing
            /\ pc \in {"write", "done"} =>
                /\ NoChangeViz =>
                    /\ ~viz_inserted
                    /\ ~Has(lines7, SoilMoistureVizLine)
                    /\ ~Has(lines7, SlopeVizLine)
                /\ NoRiskHotspots =>
                    \A k \in 1..Len(additions) : ~Has(lines7, additions[k])
                /\ (NoChangeViz /\ NoRiskHotspots) => lines7 = old
                /\ (~NoRiskHotspots /\ ~AnyContains(old, "Soil Moisture (SMAP)")) =>
                    LET idx == MinOf(IndexesContaining(old, "m.add_layer(risk_hotspots"))
                    IN  lines7 = SubSeq(old, 1, idx) \o additions
                                    \o SubSeq(old, idx + 1, Len(old))
                /\ (~NoChangeViz /\ ~AnyContains(old, "soil_moisture_viz")) =>
                    /\ viz_inserted
                    /\ Has(lines7, SoilMoistureVizLine)
                /\ ~AnyContains(CellLines(before, 5), "soil_moisture_layer") =>
                    Has(lines5, block[1])
                /\ SourceText(nb.cells[8].source) = Join(lines7)
            /\ pc = "done" => file = nb

\* a run has ended on a cell 7 with the layer anchor and without the
\* "change_viz" anchor: the layer lines and the cell 5 block were inserted
C7_Witness ==
    /\ pc = "done"
    /\ EightCells
    /\ NoChangeViz
    /\ ~NoRiskHotspots
    /\ Len(lines7) = Len(CellLines(before, 7)) + 3
    /\ Has(CellLines(file, 5), block[1])
    /\ ~Has(CellLines(before, 5), block[1])

(***************************************************************************)
(* C8. Fewer than 8 cells: the run ends in a fault (taking cell 5 or cell 7 *)
(* out of the list of cells) before the write step, so the stored notebook  *)
(* is the one that was read, also when cell 5 was changed in memory.        *)
(***************************************************************************)
C8_TooFewCells ==
    (InRun /\ Len(before.cells) < 8) =>
        /\ pc \in {"cell5", "cell7", "fault"}
        /\ file = before
        /\ Cell7Missing
        /\ Len(before.cells) < 6 => Cell5Missing /\ pc # "cell7"
        /\ (pc = "fault" /\ Len(before.cells) < 6) => nb = before

\* the run faulted at cell 7 of a 7-cell document after changing cell 5 in memory
C8_Witness ==
    /\ pc = "fault"
    /\ Len(before.cells) = 7
    /\ nb.cells[6] # before.cells[6]
    /\ file = before

(***************************************************************************)
(* C9. Wrong cell type, as stated: when the cell at index 5 or index 7 is a *)
(* markdown cell, the run ends in a fault and does not reach the end of     *)
(* main() with the document written.                                        *)
(***************************************************************************)
WrongType ==
    \/ before.cells[6].cell_type = "markdown"
    \/ before.cells[8].cell_type = "markdown"

C9_WrongTypeFatal == (EightCells /\ WrongType) => pc # "done"

(***************************************************************************)
(* C9, amended. The cell type is never looked at: when the cell at index 5  *)
(* or index 7 is a markdown cell, the run does not fault; the cell is       *)
(* patched by the same marker and anchor rules, keeps its type, and the     *)
(* document is written.                                                     *)
(***************************************************************************)
C9_WrongTypePatched ==
    (EightCells /\ WrongType) =>
        /\ pc # "fault"
        /\ ~Cell5Missing
        /\ ~Cell7Missing
        /\ pc = "done" =>
            /\ file = nb
            /\ file.cells[6].cell_type = before.cells[6].cell_type
            /\ file.cells[8].cell_type = before.cells[8].cell_type
            /\ ~AnyContains(CellLines(before, 5), "soil_moisture_layer") =>
                    EndsWith(SourceText(file.cells[6].source), "\n" \o Join(block))
            /\ (~NoChangeViz /\ ~AnyContains(CellLines(before, 7), "soil_moisture_viz")) =>
                    Contains(SourceText(file.cells[8].source), SoilMoistureVizLine)
            /\ (~NoRiskHotspots
                    /\ ~AnyContains(CellLines(before, 7), "Soil Moisture (SMAP)")) =>
                    Contains(SourceText(file.cells[8].source), Join(additions))

\* a run has ended that patched two markdown cells and wrote the document
C9_Witness ==
    /\ pc = "done"
    /\ before.cells[6].cell_type = "markdown"
    /\ before.cells[8].cell_type = "markdown"
    /\ file.cells[6].source # before.cells[6].source
    /\ file.cells[8].source # before.cells[8].source

(***************************************************************************)
(* C10. Frame: a run changes nothing of the document but the source of the  *)
(* cells at index 5 and index 7: the number of cells, their order, every    *)
(* other cell, the type of the two cells and the metadata stay the same, in *)
(* memory and in the stored document.                                       *)
(***************************************************************************)
SameButSources(old, new) ==
    /\ DOMAIN new = DOMAIN old
    /\ new.metadata = old.metadata
    /\ Len(new.cells) = Len(old.cells)
    /\ \A k \in 1..Len(old.cells) :
            IF k \in {6, 8}
            THEN [new.cells[k] EXCEPT !.source = old.cells[k].source] = old.cells[k]
            ELSE new.cells[k] = old.cells[k]

C10_Frame ==
    InRun =>
        /\ SameButSources(before, nb)
        /\ SameButSources(before, file)
        /\ pc # "done" => file = before

\* a run has ended that changed a document of 9 cells
C10_Witness ==
    /\ pc = "done"
    /\ Len(file.cells) = 9
    /\ file # before
    /\ runs = 1

(***************************************************************************)
(* C11. Definition before use in cell 7: when the cell that a run reads     *)
(* mentions slope_viz and soil_moisture_viz in no line of its own (only in  *)
(* literal lines that earlier runs inserted), then after the run every      *)
(* inserted layer line that uses slope_viz has the slope_viz definition     *)
(* literal at an earlier position of the cell, and every inserted layer     *)
(* line that uses soil_moisture_viz has the soil_moisture_viz definition    *)
(* literal at an earlier position.  A definition literal counts also when   *)
(* it ends a line it was joined to.                                         *)
(***************************************************************************)
\* the literal lines that mention one of the two names
VizLiterals == {SoilMoistureVizLine, SlopeVizLine, additions[2], additions[3]}

MentionsViz(text) == Contains(text, "slope_viz") \/ Contains(text, "soil_moisture_viz")

\* line mentions the two names only as one literal line does, at its end
OwnLineWithoutViz(line) ==
    MentionsViz(line) =>
        \E L \in VizLiterals :
            /\ EndsWith(line, L)
            /\ ~MentionsViz(SubSeq(line, 1, Len(line) - Len(L)))

\* every line use of lines has a line ending with definition before it
DefinedBeforeUse(lines, use, definition) ==
    \A k \in 1..Len(lines) :
        lines[k] = use => \E j \in 1..(k - 1) : EndsWith(lines[j], definition)

C11_DefinitionBeforeUse ==
    (pc = "done"
        /\ \A k \in 1..Len(CellLines(before, 7)) :
                OwnLineWithoutViz(CellLines(before, 7)[k])) =>
        /\ DefinedBeforeUse(CellLines(file, 7), additions[3], SlopeVizLine)
        /\ DefinedBeforeUse(CellLines(file, 7), additions[2], SoilMoistureVizLine)

(***************************************************************************)
(* C12. No duplicated layer line: when the cell 7 that a run reads has at   *)
(* most one line containing "Slope (degrees)" and at most one line          *)
(* containing "Soil Moisture (SMAP)", the cell has at most one line         *)
(* containing each of them after the run (so also after any number of       *)
(* runs).                                                                   *)
(***************************************************************************)
CountContaining(lines, needle) == Cardinality(IndexesContaining(lines, needle))

C12_NoDuplicateLayerLine ==
    (pc = "done"
        /\ CountContaining(CellLines(before, 7), "Slope (degrees)") <= 1
        /\ CountContaining(CellLines(before, 7), "Soil Moisture (SMAP)") <= 1) =>
        /\ CountContaining(CellLines(file, 7), "Slope (degrees)") <= 1
        /\ CountContaining(CellLines(file, 7), "Soil Moisture (SMAP)") <= 1

====
